---- MODULE Spec2Model ----
(***************************************************************************)
(* Over-the-air update pipeline of dronealgo-ota: the release server (the  *)
(* net/http handlers and the two revisions of the gin FileController), the  *)
(* device agent's poll cycle, and the version comparator.                   *)
(*                                                                          *)
(* Strings the code takes apart (versions) are sequences of one-character   *)
(* strings; file contents are sequences of bytes.                           *)
(***************************************************************************)
EXTENDS Integers, Sequences, FiniteSets, TLC

VARIABLES
    impl,               \* which server revision runs: "mux", "ctl1", "ctl2"
    ReleasesByVersion,  \* store.ReleasesByVersion (in memory)
    LatestByChannel,    \* store.LatestByChannel (in memory)
    storeFile,          \* data/releases.json
    artifacts,          \* artifacts/<version>/algorithm, per version
    pub,                \* publish handlers in flight
    chk,                \* check handlers in flight, per caller
    resp,               \* last check response each caller received
    lastInvalid,        \* history: the last publish request lacked its version or file
    pubResp,            \* the HTTP status of the last publish response
    dl,                 \* the last response to a download request
    npub, nchk, srvBoots,
    lastPub,            \* history: per channel, the last publish that committed
    quiet,              \* history: no publish in flight at the agent's check, none since
    pc,                 \* the agent: next step of runOnce
    ck,                 \* the agent: the CheckResp runOnce holds
    outcome,            \* the agent: what the last runOnce returned
    currentVer,         \* install_dir/current_version
    tmpFile,            \* install_dir/download_<version>
    installed,          \* install_dir/algo_<version>
    currLink,           \* install_dir/algo_current
    currentCmd,         \* the agent's tracked child: "nil", "running", "exited"
    strays,             \* payload processes alive that the agent no longer tracks
    cycles, agentBoots,
    tampered,           \* history: the bytes of the last download were altered in transit
    calm,               \* history: no publish step between the previous check and this one
    pending,            \* history: version installed by a cycle that never recorded it
    converged,          \* history: version a fully successful cycle recorded
    cmpA, cmpB, cmpC, cmpRes   \* the comparator's inputs and results

vars == << impl, dl, ReleasesByVersion, LatestByChannel, storeFile, artifacts, pub, chk,
           resp, lastInvalid, pubResp, npub, nchk, srvBoots, lastPub, quiet, pc, ck, outcome, currentVer,
           tmpFile, installed, currLink, currentCmd, strays, cycles, agentBoots,
           tampered, calm, pending, converged, cmpA, cmpB, cmpC, cmpRes >>

srvVars == << impl, dl, ReleasesByVersion, LatestByChannel, storeFile, artifacts, pub, chk,
              resp, lastInvalid, pubResp, npub, nchk, srvBoots, lastPub, quiet >>
agentVars == << pc, ck, outcome, currentVer, tmpFile, installed, currLink, currentCmd,
                strays, cycles, agentBoots, tampered, calm, pending, converged >>
cmpVars == << cmpA, cmpB, cmpC, cmpRes >>

(***************************************************************************)
(* Bounds of the model.                                                     *)
(***************************************************************************)
MaxPublish == 2     \* publish requests the server receives
MaxChecks == 1      \* check requests of devices other than the agent
MaxCycles == 2      \* poll cycles of the agent
MaxRestarts == 1    \* restarts of the server process
MaxBoots == 1       \* restarts of the agent process
MaxParts == 3       \* dot-separated components of a comparator input

(***************************************************************************)
(* Version comparator.                                                      *)
(***************************************************************************)
DigitChars == {"0", "1", "2", "3", "4", "5", "6", "7", "8", "9"}

DigitVal(ch) ==
    CASE ch = "0" -> 0 [] ch = "1" -> 1 [] ch = "2" -> 2 [] ch = "3" -> 3
      [] ch = "4" -> 4 [] ch = "5" -> 5 [] ch = "6" -> 6 [] ch = "7" -> 7
      [] ch = "8" -> 8 [] ch = "9" -> 9

RECURSIVE IndexOf(_, _, _)
\* strings.Index from position i: 0 when ch does not occur
IndexOf(s, ch, i) ==
    IF i > Len(s) THEN 0
    ELSE IF s[i] = ch THEN i
    ELSE IndexOf(s, ch, i + 1)

\* strings.SplitN(s, "-", 2)[0]
SplitN2First(s) ==
    LET i == IndexOf(s, "-", 1)
    IN  IF i = 0 THEN s ELSE SubSeq(s, 1, i - 1)

RECURSIVE Split(_, _)
\* strings.Split(s, sep) for a one-character sep: Split("", ".") is <<"">>
Split(s, sep) ==
    LET i == IndexOf(s, sep, 1)
    IN  IF i = 0 THEN << s >>
        ELSE << SubSeq(s, 1, i - 1) >> \o Split(SubSeq(s, i + 1, Len(s)), sep)

RECURSIVE DigitsVal(_, _)
DigitsVal(s, acc) ==
    IF s = << >> THEN acc
    ELSE DigitsVal(Tail(s), acc * 10 + DigitVal(Head(s)))

\* n, _ := strconv.Atoi(s): an optional sign, then digits only; 0 on a syntax
\* error. (The inputs are far shorter than the 19 digits at which Atoi clamps.)
Atoi(s) ==
    LET signed == s # << >> /\ Head(s) \in {"+", "-"}
        body == IF signed THEN Tail(s) ELSE s
    IN  IF body = << >> \/ \E i \in 1..Len(body) : body[i] \notin DigitChars
        THEN 0
        ELSE IF signed /\ Head(s) = "-" THEN 0 - DigitsVal(body, 0)
        ELSE DigitsVal(body, 0)

\* the closure parse of isNewer
parse(s) ==
    LET parts == Split(SplitN2First(s), ".")
        get(i) == IF i >= Len(parts) THEN 0 ELSE Atoi(parts[i + 1])
    IN  << get(0), get(1), get(2) >>

\* a plausible slip: >= for > in the last comparison
isNewerOrEqual(a, b) ==
    LET pa == parse(a)
        pb == parse(b)
    IN  IF pa[1] # pb[1] THEN pa[1] > pb[1]
        ELSE IF pa[2] # pb[2] THEN pa[2] > pb[2]
        ELSE pa[3] >= pb[3]

isNewer(a, b) ==
    LET pa == parse(a)
        pb == parse(b)
    IN  IF pa[1] # pb[1] THEN pa[1] > pb[1]
        ELSE IF pa[2] # pb[2] THEN pa[2] > pb[2]
        ELSE pa[3] > pb[3]

(***************************************************************************)
(* Data of the server.                                                      *)
(***************************************************************************)
V10 == << "1", ".", "0" >>
V11 == << "1", ".", "1" >>
NoVersion == << "?" >>
EmptyVersion == << >>
Versions == {V10, V11}

Channels == {"stable", "beta"}

ContentA == << 1, 2 >>
ContentB == << 2, 1 >>
Empty == << >>               \* a file of zero bytes
NoFile == << 0, 0, 0 >>      \* no such file
DirListing == << 0, 0 >>     \* what http.ServeFile sends for a directory
Contents == {ContentA, ContentB}

\* hex.EncodeToString(h.Sum(nil)) of SHA-256: distinct contents, distinct digests
Sha256(content) == [hex |-> content]

dstPath(version) == << "artifacts" >> \o version \o << "algorithm" >>

NoRelease ==
    [Version |-> NoVersion, Channel |-> "", URL |-> << >>,
     Sha256 |-> Sha256(NoFile), FilePath |-> << >>]

\* the version keys a store can hold (the first controller also stores "")
Keys == Versions \cup {EmptyVersion}

EmptyReleases == [v \in Keys |-> NoRelease]
EmptyLatest == [c \in Channels |-> NoVersion]

\* json.NewEncoder(f).Encode(store): FilePath is tagged json:"-" and is not written
Encode(releases, latest) ==
    [exists |-> TRUE,
     releases |-> [v \in Keys |->
                     IF releases[v] = NoRelease THEN NoRelease
                     ELSE [releases[v] EXCEPT !.FilePath = << >>]],
     latest |-> latest]

NoSnapshot == [exists |-> FALSE, releases |-> EmptyReleases, latest |-> EmptyLatest]

(***************************************************************************)
(* publish: handlePublish ("mux") and the two FileController.Publish        *)
(* ("ctl1", "ctl2"). A handler takes three steps: it validates the form and *)
(* creates the artifact file, it copies, and under store.mu it commits.     *)
(***************************************************************************)
Slots == 1..2

IdleSlot ==
    [pc |-> "idle", version |-> NoVersion, channel |-> "", file |-> NoFile,
     sum |-> Sha256(NoFile)]

NoPub == [version |-> NoVersion, sum |-> Sha256(NoFile), ok |-> FALSE, intact |-> FALSE]

\* the first idle slot serves the next request
FreeSlot(s) == pub[s].pc = "idle" /\ \A t \in Slots : t < s => pub[t].pc # "idle"

\* channel := r.FormValue("channel"); if channel == "" { channel = "stable" }
DefaultChannel(channel) == IF channel = "" THEN "stable" ELSE channel

NewRelease(version, channel, sum) ==
    [Version |-> version, Channel |-> channel, URL |-> << "/download/" >> \o version,
     Sha256 |-> sum, FilePath |-> dstPath(version)]

\* a plausible slip: the latest pointer is set but the record is not stored
StorePutNothing(releases, version, rel) == releases

\* store.ReleasesByVersion[version] = rel
StorePut(releases, version, rel) == [releases EXCEPT ![version] = rel]

\* os.Create(dstPath): the file exists and is empty
Create(files, version) == [files EXCEPT ![version] = Empty]

Received(version, channel, file) ==
    /\ npub < MaxPublish
    /\ npub' = npub + 1
    /\ lastInvalid' = (version = EmptyVersion \/ file = NoFile)
    /\ quiet' = FALSE

\* handlePublish and the second FileController.Publish return on a missing
\* version or file before they touch anything
PublishBegin(s, version, channel, file) ==
    /\ impl \in {"mux", "ctl2"}
    /\ FreeSlot(s)
    /\ Received(version, channel, file)
    /\ IF version = EmptyVersion \/ file = NoFile
       THEN /\ pubResp' = 400
            /\ UNCHANGED << pub, artifacts >>
       ELSE /\ artifacts' = Create(artifacts, version)
            /\ pub' = [pub EXCEPT ![s] =
                         [pc |-> "created", version |-> version,
                          channel |-> DefaultChannel(channel), file |-> file,
                          sum |-> Sha256(NoFile)]]
            /\ UNCHANGED pubResp
    /\ UNCHANGED << impl, dl, ReleasesByVersion, LatestByChannel, storeFile, chk, resp,
                    nchk, srvBoots, lastPub >>
    /\ UNCHANGED agentVars
    /\ UNCHANGED cmpVars

\* the first FileController.Publish answers 400 and goes on: ResponseFailure
\* only aborts the middleware chain. A missing file ends the handler at
\* fileHeader.Open(), a nil dereference, after dstPath was created.
PublishBeginFirst(s, version, channel, file) ==
    /\ impl = "ctl1"
    /\ FreeSlot(s)
    /\ Received(version, channel, file)
    /\ artifacts' = Create(artifacts, version)
    /\ IF file = NoFile
       THEN /\ pubResp' = 400
            /\ UNCHANGED pub
       ELSE /\ pubResp' = (IF version = EmptyVersion THEN 400 ELSE 0)
            /\ pub' = [pub EXCEPT ![s] =
                         [pc |-> "created", version |-> version,
                          channel |-> DefaultChannel(channel), file |-> file,
                          sum |-> Sha256(NoFile)]]
    /\ UNCHANGED << impl, dl, ReleasesByVersion, LatestByChannel, storeFile, chk, resp,
                    nchk, srvBoots, lastPub >>
    /\ UNCHANGED agentVars
    /\ UNCHANGED cmpVars

\* io.Copy(io.MultiWriter(dst, h), file): the upload goes to dstPath and to the
\* hash. The first controller copies from f, which is dstPath itself opened
\* for reading, so it reads what the file holds and never reads the upload.
CopySource(s) == IF impl = "ctl1" THEN artifacts[pub[s].version] ELSE pub[s].file

PublishCopy(s) ==
    /\ pub[s].pc = "created"
    /\ artifacts' = [artifacts EXCEPT ![pub[s].version] = CopySource(s)]
    /\ pub' = [pub EXCEPT ![s].pc = "copied", ![s].sum = Sha256(CopySource(s))]
    /\ quiet' = FALSE
    /\ UNCHANGED << impl, dl, ReleasesByVersion, LatestByChannel, storeFile, chk, resp,
                    lastInvalid, pubResp, npub, nchk, srvBoots, lastPub >>
    /\ UNCHANGED agentVars
    /\ UNCHANGED cmpVars

\* store.mu.Lock(); the two assignments; saveStore(); the response. saveStore
\* writes releases.json.tmp and renames it over releases.json, or fails and
\* leaves releases.json as it was; the assignments are not undone.
PublishCommit(s, saved) ==
    /\ pub[s].pc = "copied"
    /\ LET version == pub[s].version
           channel == pub[s].channel
           rel == NewRelease(version, channel, pub[s].sum)
           releases == StorePut(ReleasesByVersion, version, rel)
           latest == [LatestByChannel EXCEPT ![channel] = version]
       IN  /\ ReleasesByVersion' = releases
           /\ LatestByChannel' = latest
           /\ storeFile' = IF saved THEN Encode(releases, latest) ELSE storeFile
           /\ pubResp' = IF impl = "ctl1" /\ version = EmptyVersion THEN 400
                         ELSE IF ~saved THEN 500
                         ELSE 200
           /\ lastPub' = [c \in Channels |->
                            IF c = channel
                            THEN [version |-> version, sum |-> Sha256(pub[s].file),
                                  ok |-> saved /\ version # EmptyVersion,
                                  intact |-> TRUE]
                            ELSE IF lastPub[c].version = version
                            THEN [lastPub[c] EXCEPT !.intact = FALSE]
                            ELSE lastPub[c]]
    /\ pub' = [pub EXCEPT ![s] = IdleSlot]
    /\ quiet' = FALSE
    /\ UNCHANGED << impl, dl, artifacts, chk, resp, lastInvalid, npub, nchk, srvBoots >>
    /\ UNCHANGED agentVars
    /\ UNCHANGED cmpVars

(***************************************************************************)
(* check: handleCheck ("mux") is one step under store.mu.RLock().           *)
(* FileController.Check ("ctl2") first runs loadStore, which decodes        *)
(* releases.json outside the lock and then, under store.mu.Lock(), replaces *)
(* both maps; the lookup follows under store.mu.RLock().                    *)
(***************************************************************************)
Callers == {"agent", "dev2"}
NoParam == "<absent>"
cfgChannel == "stable"       \* cfg.Channel of the agent

\* no handlePublish is between its first and its last step
NoPublishing == \A s \in Slots : pub[s] = IdleSlot

\* alone, npub: history, whether a publish was in flight when the check began,
\* and how many publish requests had arrived by then
IdleCheck ==
    [pc |-> "idle", channel |-> "", current |-> << >>, tmp |-> NoSnapshot,
     alone |-> FALSE, npub |-> 0]

NoResp ==
    [status |-> 0, update |-> FALSE, latest |-> NoRelease, message |-> "",
     channel |-> "", current |-> << >>, seen |-> NoPub, settled |-> FALSE]

\* q.Get("channel") with the "stable" default
ChannelMux(channel) == IF channel \in {"", NoParam} THEN "stable" ELSE channel

\* g.DefaultQuery("channel", "stable"): the default only when the key is absent
ChannelCtl(channel) == IF channel = NoParam THEN "stable" ELSE channel

\* a plausible slip: the arguments of isNewer swapped
UpdateAvailableSwapped(latestVersion, current) ==
    current = << >> \/ isNewer(current, latestVersion)

\* current == "" || isNewer(latest.Version, current)
UpdateAvailable(latestVersion, current) ==
    current = << >> \/ isNewer(latestVersion, current)

\* the lookup and the response, under the read lock
CheckResponse(channel, current, notFound, settled) ==
    LET known == channel \in Channels /\ LatestByChannel[channel] # NoVersion
        latest == IF known THEN ReleasesByVersion[LatestByChannel[channel]]
                  ELSE NoRelease
        seen == IF channel \in Channels THEN lastPub[channel] ELSE NoPub
    IN  IF ~known
        THEN [NoResp EXCEPT !.status = notFound,
                            !.message = "no release in channel",
                            !.channel = channel,
                            !.current = current, !.seen = seen,
                            !.settled = settled]
        ELSE IF latest = NoRelease      \* latest.Version on a nil *Release
        THEN [NoResp EXCEPT !.status = 500, !.message = "nil dereference",
                            !.channel = channel, !.current = current, !.seen = seen,
                            !.settled = settled]
        ELSE [status |-> 200,
              update |-> UpdateAvailable(latest.Version, current),
              latest |-> latest,
              message |-> IF UpdateAvailable(latest.Version, current)
                          THEN "new version available" ELSE "up to date",
              channel |-> channel, current |-> current, seen |-> seen,
              settled |-> settled]

NoCk == [UpdateAvailable |-> FALSE, Latest |-> NoRelease]

NoPending == [version |-> NoVersion, old |-> << >>]

\* runOnce after the response: a status other than 200 is an error, no update
\* ends the cycle, and otherwise the download is next
AgentGot(r) ==
    /\ resp' = [resp EXCEPT !["agent"] = r]
    /\ IF r.status # 200
       THEN pc' = "tick" /\ outcome' = "check failed" /\ ck' = NoCk
       ELSE IF ~r.update \/ r.latest = NoRelease
       THEN pc' = "tick" /\ outcome' = "no update" /\ ck' = NoCk
       ELSE pc' = "download" /\ outcome' = "running"
            /\ ck' = [UpdateAvailable |-> r.update,
                      Latest |-> [r.latest EXCEPT !.FilePath = << >>]]
    /\ UNCHANGED << currentVer, tmpFile, installed, currLink, currentCmd, strays,
                    agentBoots, tampered >>

Got(c, r) ==
    IF c = "agent"
    THEN AgentGot(r) /\ UNCHANGED << cycles, calm, pending, converged >>
    ELSE /\ resp' = [resp EXCEPT ![c] = r]
         /\ UNCHANGED agentVars

\* a check of another device against the net/http server
CheckMux(channel, current) ==
    /\ impl = "mux"
    /\ nchk < MaxChecks
    /\ nchk' = nchk + 1
    /\ Got("dev2", CheckResponse(ChannelMux(channel), current, 404, NoPublishing))
    /\ UNCHANGED << impl, dl, ReleasesByVersion, LatestByChannel, storeFile, artifacts,
                    pub, chk, lastInvalid, pubResp, npub, srvBoots, lastPub, quiet >>
    /\ UNCHANGED cmpVars

\* loadStore, first half: os.Open and Decode into tmp; on an error Check logs
\* and goes on to the lookup
Loaded(c, channel, current) ==
    chk' = [chk EXCEPT ![c] =
              [pc |-> IF storeFile.exists THEN "loaded" ELSE "ready",
               channel |-> ChannelCtl(channel), current |-> current,
               tmp |-> storeFile, alone |-> NoPublishing, npub |-> npub]]

CheckLoad(channel, current) ==
    /\ impl = "ctl2"
    /\ nchk < MaxChecks
    /\ chk["dev2"].pc = "idle"
    /\ nchk' = nchk + 1
    /\ Loaded("dev2", channel, current)
    /\ UNCHANGED << impl, dl, ReleasesByVersion, LatestByChannel, storeFile, artifacts,
                    pub, resp, lastInvalid, pubResp, npub, srvBoots, lastPub, quiet >>
    /\ UNCHANGED agentVars
    /\ UNCHANGED cmpVars

\* loadStore, second half, under store.mu.Lock(): both maps are replaced
loadStore(releases, latest, tmp) == << tmp.releases, tmp.latest >>

CheckInstall(c) ==
    /\ chk[c].pc = "loaded"
    /\ LET st == loadStore(ReleasesByVersion, LatestByChannel, chk[c].tmp)
       IN  /\ ReleasesByVersion' = st[1]
           /\ LatestByChannel' = st[2]
    /\ chk' = [chk EXCEPT ![c].pc = "ready", ![c].tmp = NoSnapshot]
    /\ UNCHANGED << impl, dl, storeFile, artifacts, pub, resp, lastInvalid, pubResp, npub,
                    nchk, srvBoots, lastPub, quiet >>
    /\ UNCHANGED agentVars
    /\ UNCHANGED cmpVars

\* the response of the lookup; the first controller's router has no /check
CheckServe(c) ==
    /\ chk[c].pc = "ready"
    /\ Got(c, IF impl = "ctl1" THEN [NoResp EXCEPT !.status = 404]
              ELSE CheckResponse(chk[c].channel, chk[c].current,
                                 IF impl = "mux" THEN 404 ELSE 500,
                                 chk[c].alone /\ chk[c].npub = npub))
    /\ chk' = [chk EXCEPT ![c] = IdleCheck]
    /\ UNCHANGED << impl, dl, ReleasesByVersion, LatestByChannel, storeFile, artifacts,
                    pub, lastInvalid, pubResp, npub, nchk, srvBoots, lastPub, quiet >>
    /\ UNCHANGED cmpVars

(***************************************************************************)
(* The server process stops and starts again: the handlers in flight are    *)
(* gone, and main loads releases.json into an empty store. The first        *)
(* controller has no loadStore; the second one's main returns when          *)
(* InitStore fails.                                                         *)
(***************************************************************************)
ServerRestart ==
    /\ srvBoots < MaxRestarts
    /\ impl = "ctl2" => storeFile.exists
    /\ srvBoots' = srvBoots + 1
    /\ ReleasesByVersion' = IF impl = "ctl1" THEN EmptyReleases ELSE storeFile.releases
    /\ LatestByChannel' = IF impl = "ctl1" THEN EmptyLatest ELSE storeFile.latest
    /\ pub' = [s \in Slots |-> IdleSlot]
    /\ chk' = [c \in Callers |-> IdleCheck]
    /\ quiet' = FALSE
    /\ IF chk["agent"].pc # "idle"      \* the agent's http.Get fails
       THEN /\ pc' = "tick"
            /\ outcome' = "check failed"
            /\ ck' = NoCk
            /\ UNCHANGED << currentVer, tmpFile, installed, currLink, currentCmd,
                            strays, cycles, agentBoots, tampered, calm, pending, converged >>
       ELSE UNCHANGED agentVars
    /\ UNCHANGED << impl, dl, storeFile, artifacts, resp, lastInvalid, pubResp, npub, nchk,
                    lastPub >>
    /\ UNCHANGED cmpVars

(***************************************************************************)
(* The agent: main's loop and runOnce, one action per step of the cycle.    *)
(***************************************************************************)
\* how a cycle that ends early leaves the history variables
Stopped(afterInstall) ==
    /\ pending' = IF ~afterInstall THEN pending
                  ELSE IF quiet THEN [version |-> ck.Latest.Version, old |-> currentVer]
                  ELSE NoPending
    /\ UNCHANGED converged

\* runOnce(cfg, readCurrentVersion()): the check request
Tick ==
    /\ pc = "tick"
    /\ cycles < MaxCycles
    /\ cycles' = cycles + 1
    /\ quiet' = NoPublishing
    /\ calm' = quiet
    /\ pending' = IF quiet THEN pending ELSE NoPending
    /\ converged' = IF quiet THEN converged ELSE NoVersion
    /\ IF impl = "mux"
       THEN /\ AgentGot(CheckResponse(ChannelMux(cfgChannel), currentVer, 404,
                                      NoPublishing))
            /\ UNCHANGED chk
       ELSE /\ pc' = "checking"
            /\ outcome' = "running"
            /\ IF impl = "ctl2"
               THEN Loaded("agent", cfgChannel, currentVer)
               ELSE chk' = [chk EXCEPT !["agent"] =
                              [IdleCheck EXCEPT !.pc = "ready"]]
            /\ UNCHANGED << resp, ck, currentVer, tmpFile, installed, currLink,
                            currentCmd, strays, agentBoots, tampered >>
    /\ UNCHANGED << impl, dl, ReleasesByVersion, LatestByChannel, storeFile, artifacts,
                    pub, lastInvalid, pubResp, npub, nchk, srvBoots, lastPub >>
    /\ UNCHANGED cmpVars

\* parts[0] of the path after "/download/"
DownloadVersion(url) == Split(Tail(url), "/")[1]

\* handleDownload: 404 for an unknown version, else http.ServeFile(rel.FilePath);
\* an empty FilePath names the working directory, and its listing is sent
ServeDownload(version) ==
    IF version \notin Keys \/ ReleasesByVersion[version] = NoRelease THEN NoFile
    ELSE IF ReleasesByVersion[version].FilePath = << >> THEN DirListing
    ELSE artifacts[version]

\* FileController.Download, as the specification describes it
CtlDownload(version) ==
    IF version \notin Keys \/ ReleasesByVersion[version] = NoRelease THEN NoFile
    ELSE artifacts[version]

Served(version) ==
    IF impl = "mux" THEN ServeDownload(version)
    ELSE IF impl = "ctl2" THEN CtlDownload(version)
    ELSE NoFile

\* GET /download/<version> from any client: 404 "unknown version", or 200
\* with what the handler serves
Download(version) ==
    /\ dl' = [version |-> version,
              status |-> IF Served(version) = NoFile THEN 404 ELSE 200,
              body |-> Served(version)]
    /\ UNCHANGED << impl, ReleasesByVersion, LatestByChannel, storeFile, artifacts,
                    pub, chk, resp, lastInvalid, pubResp, npub, nchk, srvBoots,
                    lastPub, quiet >>
    /\ UNCHANGED agentVars
    /\ UNCHANGED cmpVars

PartialOf(content) ==
    IF content = << >> THEN << >> ELSE SubSeq(content, 1, Len(content) - 1)

\* a cycle whose error ends the process (log.Fatal in place of log.Printf)
EndCycleHalt(result, afterInstall) ==
    /\ pc' = "halted"
    /\ outcome' = result
    /\ ck' = NoCk
    /\ Stopped(afterInstall)

\* runOnce returns: its locals are gone
EndCycle(result, afterInstall) ==
    /\ pc' = "tick"
    /\ outcome' = result
    /\ ck' = NoCk
    /\ Stopped(afterInstall)

\* downloadToFile: the request fails, or the status is not 200, before
\* download_<version> is created
DownloadRefused ==
    /\ pc = "download"
    /\ EndCycle("download failed", FALSE)
    /\ UNCHANGED << currentVer, tmpFile, installed, currLink, currentCmd, strays,
                    cycles, agentBoots, tampered, calm >>
    /\ UNCHANGED srvVars
    /\ UNCHANGED cmpVars

\* downloadToFile: os.Create(dst), then io.Copy, which may stop part-way
DownloadBody(body, complete) ==
    /\ pc = "download"
    /\ LET served == Served(DownloadVersion(ck.Latest.URL))
       IN  /\ served # NoFile
           /\ body \in {served} \cup Contents
           /\ tampered' = (body # served)
           /\ tmpFile' = [tmpFile EXCEPT ![ck.Latest.Version] =
                            IF complete THEN body ELSE PartialOf(body)]
    /\ IF complete
       THEN pc' = "verify" /\ UNCHANGED << ck, outcome, pending, converged >>
       ELSE EndCycle("download failed", FALSE)
    /\ UNCHANGED << currentVer, installed, currLink, currentCmd, strays, cycles,
                    agentBoots, calm >>
    /\ UNCHANGED srvVars
    /\ UNCHANGED cmpVars

\* a plausible slip: the digest is not compared
verifySha256Always(content, want) == TRUE

\* got == want
verifySha256(content, want) == Sha256(content) = want

Verify ==
    /\ pc = "verify"
    /\ IF verifySha256(tmpFile[ck.Latest.Version], ck.Latest.Sha256)
       THEN /\ pc' = "install"
            /\ UNCHANGED << ck, outcome, tmpFile, pending, converged >>
       ELSE /\ tmpFile' = [tmpFile EXCEPT ![ck.Latest.Version] = NoFile]
            /\ EndCycle("sha256 mismatch", FALSE)
    /\ UNCHANGED << currentVer, installed, currLink, currentCmd, strays, cycles,
                    agentBoots, tampered, calm >>
    /\ UNCHANGED srvVars
    /\ UNCHANGED cmpVars

\* os.Rename(tmpFile, dst), then os.Chmod(dst, 0o755)
Install(renamed, chmodded) ==
    /\ pc = "install"
    /\ renamed \/ ~chmodded
    /\ IF renamed
       THEN /\ installed' = [installed EXCEPT ![ck.Latest.Version] =
                               tmpFile[ck.Latest.Version]]
            /\ tmpFile' = [tmpFile EXCEPT ![ck.Latest.Version] = NoFile]
       ELSE UNCHANGED << installed, tmpFile >>
    /\ IF renamed /\ chmodded
       THEN pc' = "link" /\ UNCHANGED << ck, outcome, pending, converged >>
       ELSE EndCycle(IF renamed THEN "chmod failed" ELSE "rename failed", FALSE)
    /\ UNCHANGED << currentVer, currLink, currentCmd, strays, cycles, agentBoots,
                    tampered, calm >>
    /\ UNCHANGED srvVars
    /\ UNCHANGED cmpVars

\* _ = os.Remove(currLink), then os.Symlink(dst, currLink)
Link(linked) ==
    /\ pc = "link"
    /\ currLink' = IF linked THEN ck.Latest.Version ELSE NoVersion
    /\ IF linked
       THEN pc' = "restart" /\ UNCHANGED << ck, outcome, pending, converged >>
       ELSE EndCycle("symlink failed", TRUE)
    /\ UNCHANGED << currentVer, tmpFile, installed, currentCmd, strays, cycles,
                    agentBoots, tampered, calm >>
    /\ UNCHANGED srvVars
    /\ UNCHANGED cmpVars

\* stopAlgorithm: a tracked process is signalled (killed when the signal
\* fails) and forgotten, whether or not it has gone
AfterStop == IF currentCmd = "running" THEN strays + 1 ELSE strays

\* restartAlgorithm(currLink): stop, sleep, startAlgorithm
Restart(started) ==
    /\ pc = "restart"
    /\ strays' = AfterStop
    /\ currentCmd' = IF started THEN "running" ELSE "nil"
    /\ IF started
       THEN pc' = "record" /\ UNCHANGED << ck, outcome, pending, converged >>
       ELSE EndCycle("restart failed", TRUE)
    /\ UNCHANGED << currentVer, tmpFile, installed, currLink, cycles, agentBoots,
                    tampered, calm >>
    /\ UNCHANGED srvVars
    /\ UNCHANGED cmpVars

\* os.WriteFile(currentVerFP, version): it truncates, then writes
Record(written, truncated) ==
    /\ pc = "record"
    /\ written => truncated
    /\ currentVer' = IF written THEN ck.Latest.Version
                     ELSE IF truncated THEN << >>
                     ELSE currentVer
    /\ pc' = "tick"
    /\ outcome' = IF written THEN "ok" ELSE "record failed"
    /\ pending' = NoPending
    /\ converged' = IF written /\ quiet THEN ck.Latest.Version ELSE NoVersion
    /\ ck' = NoCk
    /\ UNCHANGED << tmpFile, installed, currLink, currentCmd, strays, cycles,
                    agentBoots, tampered, calm >>
    /\ UNCHANGED srvVars
    /\ UNCHANGED cmpVars

\* the payload process exits on its own; the observer goroutine only logs
ProcExit ==
    /\ currentCmd = "running"
    /\ currentCmd' = "exited"
    /\ UNCHANGED << pc, ck, outcome, currentVer, tmpFile, installed, currLink, strays,
                    cycles, agentBoots, tampered, calm, pending, converged >>
    /\ UNCHANGED srvVars
    /\ UNCHANGED cmpVars

StrayExit ==
    /\ strays > 0
    /\ strays' = strays - 1
    /\ UNCHANGED << pc, ck, outcome, currentVer, tmpFile, installed, currLink,
                    currentCmd, cycles, agentBoots, tampered, calm, pending, converged >>
    /\ UNCHANGED srvVars
    /\ UNCHANGED cmpVars

\* the agent process dies and main runs again: the child is no longer tracked,
\* and main starts algo_current when the link exists
AgentRestart(started) ==
    /\ agentBoots < MaxBoots
    /\ agentBoots' = agentBoots + 1
    /\ started => currLink # NoVersion
    /\ strays' = AfterStop
    /\ currentCmd' = IF started THEN "running" ELSE "nil"
    /\ EndCycle("crashed", pc \in {"link", "restart", "record"})
    /\ chk' = [chk EXCEPT !["agent"] = IdleCheck]
    /\ UNCHANGED << currentVer, tmpFile, installed, currLink, cycles, tampered, calm >>
    /\ UNCHANGED << impl, dl, ReleasesByVersion, LatestByChannel, storeFile, artifacts,
                    pub, resp, lastInvalid, pubResp, npub, nchk, srvBoots, lastPub, quiet >>
    /\ UNCHANGED cmpVars

(***************************************************************************)
(* The system.                                                              *)
(***************************************************************************)
NoCmp == [done |-> FALSE, aa |-> FALSE, ab |-> FALSE, ba |-> FALSE, bc |-> FALSE,
          ac |-> FALSE]

NoDownload == [version |-> NoVersion, status |-> 0, body |-> NoFile]

\* the server after main, before any request; the agent on its first run
Fresh ==
    /\ ReleasesByVersion = EmptyReleases
    /\ LatestByChannel = EmptyLatest
    /\ storeFile = IF impl = "ctl2" THEN Encode(EmptyReleases, EmptyLatest)
                   ELSE NoSnapshot
    /\ artifacts = [v \in Keys |-> NoFile]
    /\ pub = [s \in Slots |-> IdleSlot]
    /\ chk = [c \in Callers |-> IdleCheck]
    /\ resp = [c \in Callers |-> NoResp]
    /\ lastInvalid = FALSE
    /\ pubResp = 0
    /\ dl = NoDownload
    /\ npub = 0 /\ nchk = 0 /\ srvBoots = 0
    /\ lastPub = [c \in Channels |-> NoPub]
    /\ quiet = TRUE
    /\ pc = "tick"
    /\ ck = NoCk
    /\ outcome = "none"
    /\ currentVer = << >>
    /\ tmpFile = [v \in Versions |-> NoFile]
    /\ installed = [v \in Versions |-> NoFile]
    /\ currLink = NoVersion
    /\ currentCmd = "nil"
    /\ strays = 0
    /\ cycles = 0 /\ agentBoots = 0
    /\ tampered = FALSE
    /\ calm = FALSE
    /\ pending = NoPending
    /\ converged = NoVersion

Init ==
    /\ impl \in {"mux", "ctl1", "ctl2"}
    /\ Fresh
    /\ cmpA = << >> /\ cmpB = << >> /\ cmpC = << >> /\ cmpRes = NoCmp

(***************************************************************************)
(* The comparator on its own: three inputs, and isNewer applied to them.    *)
(***************************************************************************)
Comps == { << "2" >>, << "1", "0" >> }

RECURSIVE Join(_)
Join(ps) == IF Len(ps) = 1 THEN ps[1] ELSE ps[1] \o << "." >> \o Join(Tail(ps))

Dotted == { Join(ps) : ps \in UNION { [1..n -> Comps] : n \in 1..MaxParts } }

Odd ==
    { << >>, << "x" >>, << "+", "2" >>, << "-", "2" >>, << "2", ".", "x" >>,
      << "x", ".", "2" >>, << "2", ".", ".", "2" >>, << "2", "-", "r" >>,
      << "2", ".", "2", "-", "r" >>, << "2", "-", "r", ".", "1", "0" >>,
      << "2", ".", "1", "0", ".", "2", "-", "r", "c", "1" >> }

VersionStrings == Dotted \cup Odd

InitCmp ==
    /\ impl = "mux"
    /\ Fresh
    /\ cmpA \in VersionStrings /\ cmpB \in VersionStrings /\ cmpC \in VersionStrings
    /\ cmpRes = NoCmp

Compare ==
    /\ ~cmpRes.done
    /\ cmpRes' = [done |-> TRUE,
                  aa |-> isNewer(cmpA, cmpA),
                  ab |-> isNewer(cmpA, cmpB),
                  ba |-> isNewer(cmpB, cmpA),
                  bc |-> isNewer(cmpB, cmpC),
                  ac |-> isNewer(cmpA, cmpC)]
    /\ UNCHANGED << cmpA, cmpB, cmpC >>
    /\ UNCHANGED srvVars
    /\ UNCHANGED agentVars

SpecCmp == InitCmp /\ [][Compare]_vars

\* what the requests of the model carry
FormVersions == Keys
FormChannels == {"", "beta"}
FormFiles == Contents \cup {NoFile}
QueryChannels == {NoParam, "", "beta"}
QueryCurrents == Versions \cup {<< >>}
Bodies == Contents \cup {Empty, DirListing}

ServerNext ==
    \/ \E s \in Slots, v \in FormVersions, c \in FormChannels, f \in FormFiles :
          PublishBegin(s, v, c, f)
    \/ \E s \in Slots, v \in FormVersions, c \in FormChannels, f \in FormFiles :
          PublishBeginFirst(s, v, c, f)
    \/ \E s \in Slots : PublishCopy(s)
    \/ \E s \in Slots, saved \in BOOLEAN : PublishCommit(s, saved)
    \/ \E c \in QueryChannels, cur \in QueryCurrents : CheckMux(c, cur)
    \/ \E c \in QueryChannels, cur \in QueryCurrents : CheckLoad(c, cur)
    \/ \E c \in Callers : CheckInstall(c)
    \/ \E c \in Callers : CheckServe(c)
    \/ ServerRestart

AgentNext ==
    \/ Tick
    \/ DownloadRefused
    \/ \E body \in Bodies, complete \in BOOLEAN : DownloadBody(body, complete)
    \/ Verify
    \/ \E renamed, chmodded \in BOOLEAN : Install(renamed, chmodded)
    \/ \E linked \in BOOLEAN : Link(linked)
    \/ \E started \in BOOLEAN : Restart(started)
    \/ \E written, truncated \in BOOLEAN : Record(written, truncated)
    \/ ProcExit
    \/ StrayExit
    \/ \E started \in BOOLEAN : AgentRestart(started)

\* the agent polling a server that takes, one at a time, well-formed publishes
\* to the agent's channel
SystemNext ==
    \/ \E v \in Versions : PublishBegin(1, v, "", ContentA)
    \/ PublishCopy(1)
    \/ PublishCommit(1, TRUE)
    \/ CheckMux(NoParam, << >>)
    \/ CheckLoad(NoParam, << >>)
    \/ \E c \in Callers : CheckInstall(c)
    \/ \E c \in Callers : CheckServe(c)
    \/ AgentNext

\* the first controller routes no /check, so no agent can poll it
InitSystem == Init /\ impl # "ctl1"

Spec == InitSystem /\ [][SystemNext]_vars

SpecServer == Init /\ [][ServerNext]_vars

\* a server that takes publishes one at a time, serves downloads and is
\* stopped and started again
DownloadNext ==
    \/ \E v \in Versions, f \in Contents : PublishBegin(1, v, "", f)
    \/ PublishCopy(1)
    \/ \E saved \in BOOLEAN : PublishCommit(1, saved)
    \/ ServerRestart
    \/ \E v \in Keys : Download(v)

SpecDownload == InitSystem /\ [][DownloadNext]_vars

(***************************************************************************)
(* The properties.                                                          *)
(***************************************************************************)
Responded(c) == resp[c].status # 0

\* C1: once a publish to a channel has returned successfully, a check on that
\* channel answered afterwards (whenever it started) does not report a latest
\* release older than the version of the last such publish.
C1_NoStaleCheck ==
    \A c \in Callers :
        (resp[c].status = 200 /\ resp[c].seen.ok)
            => ~isNewer(resp[c].seen.version, resp[c].latest.Version)

\* C2: every value of latestByChannel is a key of releasesByVersion, and no
\* check has dereferenced a missing release.
C2_LatestIsKnown ==
    /\ \A c \in Channels :
          LatestByChannel[c] # NoVersion
              => /\ LatestByChannel[c] \in Keys
                 /\ ReleasesByVersion[LatestByChannel[c]] # NoRelease
    /\ \A c \in Callers : resp[c].message # "nil dereference"

\* C2 witness: a check of the second controller, which reloaded the snapshot,
\* has answered while both channels have a latest release
C2_Witness ==
    /\ impl = "ctl2"
    /\ resp["dev2"].status = 200
    /\ \A c \in Channels : LatestByChannel[c] # NoVersion

\* C3: after publish(v, c, notes, content) has succeeded, with no later publish
\* to c or of v, a check(c, "") that began after it (no publish was in flight
\* when it began, none arrived before it answered) answers updateAvailable =
\* true, latest.version = v and latest.digest = the hash of content.
C3_CheckAfterPublish ==
    \A c \in Callers :
        (Responded(c) /\ resp[c].settled /\ resp[c].current = << >>
                      /\ resp[c].seen.ok /\ resp[c].seen.intact)
            => /\ resp[c].status = 200
               /\ resp[c].update
               /\ resp[c].latest.Version = resp[c].seen.version
               /\ resp[c].latest.Sha256 = resp[c].seen.sum

InFlight(v) == \E s \in Slots : pub[s].pc # "idle" /\ pub[s].version = v

\* C4: once every publish call for v has returned (none was cut short by a
\* server stop), the digest recorded for v is the hash of the bytes stored for v.
C4_DigestMatchesArtifact ==
    \A v \in Versions :
        (srvBoots = 0 /\ ~InFlight(v) /\ ReleasesByVersion[v] # NoRelease)
            => ReleasesByVersion[v].Sha256 = Sha256(artifacts[v])

Downloading == pc \in {"download", "verify", "install", "link", "restart", "record"}

\* C6: after a cycle stopped between the install and the record (and with no
\* publish since its check), the record still names the old version, and the
\* following cycles get updateAvailable = true for the same version and do not
\* reject an unaltered download as corrupt.
C6_RetryAfterUnrecordedInstall ==
    (pending # NoPending /\ quiet)
        => /\ currentVer = pending.old
           /\ outcome \notin {"no update", "check failed"}
           /\ outcome = "sha256 mismatch" => tampered
           /\ Downloading => ck.Latest.Version = pending.version

\* C7: a cycle in which every step succeeded ends with the record naming the
\* latest release, and with no publish since its check no later cycle is told
\* of an update.
C7_ConvergesAfterInstall ==
    (converged # NoVersion /\ quiet)
        => /\ currentVer = converged
           /\ pc \in {"tick", "checking"}

(* The triplet as the specification words it: the text before the first '-',  *)
(* cut at the dots; a field that is a decimal numeral (Go's integer syntax,    *)
(* so a leading sign belongs to it) counts as its value, any other field and   *)
(* a missing one as 0.                                                        *)
DashAt(s) ==
    IF \E i \in 1..Len(s) : s[i] = "-"
    THEN CHOOSE i \in 1..Len(s) : s[i] = "-" /\ \A j \in 1..(i - 1) : s[j] # "-"
    ELSE Len(s) + 1

DotsBefore(s, i) == Cardinality({ j \in 1..(i - 1) : s[j] = "." })

FieldIndexes(s, k) ==
    { i \in 1..(DashAt(s) - 1) : s[i] # "." /\ DotsBefore(s, i) = k - 1 }

Digits(s, idx) == { i \in idx : s[i] \in DigitChars }

RECURSIVE Pow10(_)
Pow10(n) == IF n = 0 THEN 1 ELSE 10 * Pow10(n - 1)

RECURSIVE SumOver(_, _, _)
SumOver(s, idx, all) ==
    IF idx = {} THEN 0
    ELSE LET i == CHOOSE x \in idx : TRUE
         IN  DigitVal(s[i]) * Pow10(Cardinality({ j \in all : j > i }))
                 + SumOver(s, idx \ {i}, all)

FieldValue(s, k) ==
    LET idx == FieldIndexes(s, k)
        dig == Digits(s, idx)
        rest == idx \ dig
    IN  IF dig = {} THEN 0
        ELSE IF rest = {} THEN SumOver(s, dig, dig)
        ELSE IF /\ Cardinality(rest) = 1
                /\ \A i \in rest : s[i] = "+" /\ \A j \in dig : i < j
        THEN SumOver(s, dig, dig)
        ELSE 0

Triplet(s) == << FieldValue(s, 1), FieldValue(s, 2), FieldValue(s, 3) >>

Greater(t, u) ==
    \/ t[1] > u[1]
    \/ t[1] = u[1] /\ t[2] > u[2]
    \/ t[1] = u[1] /\ t[2] = u[2] /\ t[3] > u[3]

\* C8: isNewer(a, b) is true exactly when the triplet of a is greater than the
\* triplet of b in lexicographic order; it is irreflexive, asymmetric and
\* transitive, and versions with the same triplet (differing in suffix or in
\* trailing missing components) are not newer than each other.
C8_IsNewerIsTripletOrder ==
    cmpRes.done
        => /\ cmpRes.ab <=> Greater(Triplet(cmpA), Triplet(cmpB))
           /\ cmpRes.ba <=> Greater(Triplet(cmpB), Triplet(cmpA))
           /\ ~cmpRes.aa
           /\ ~(cmpRes.ab /\ cmpRes.ba)
           /\ (cmpRes.ab /\ cmpRes.bc) => cmpRes.ac
           /\ Triplet(cmpA) = Triplet(cmpB) => ~cmpRes.ab /\ ~cmpRes.ba

\* C8 witness: "2.10" is found newer than "2.2-r" and "2.2-r" newer than "2",
\* while "2" and "2-r.10" are not newer than each other
C8_Witness ==
    /\ cmpRes.done
    /\ cmpA = << "2", ".", "1", "0" >>
    /\ cmpB = << "2", ".", "2", "-", "r" >>
    /\ cmpC = << "2" >>
    /\ cmpRes.ab /\ cmpRes.bc /\ cmpRes.ac /\ ~cmpRes.ba

\* C9: a check that finds a latest release answers updateAvailable = true
\* exactly when currentVersion is empty or isNewer(latest.version,
\* currentVersion): false when the latest release is equal to or older than
\* currentVersion.
C9_UpdateAvailableIff ==
    \A c \in Callers :
        resp[c].status = 200
            => /\ resp[c].update <=>
                    (resp[c].current = << >>
                        \/ isNewer(resp[c].latest.Version, resp[c].current))
               /\ ( /\ resp[c].current # << >>
                    /\ ~Greater(Triplet(resp[c].latest.Version),
                                Triplet(resp[c].current)) )
                      => ~resp[c].update

\* C9 witness: a device on 1.1 was told "up to date" while the latest is 1.0
C9_Witness ==
    /\ resp["dev2"].status = 200
    /\ resp["dev2"].current = V11
    /\ resp["dev2"].latest.Version = V10
    /\ ~resp["dev2"].update

\* C10: a publish request with an empty version or without a file is answered
\* 400 at once and changes nothing: no artifact file, neither map, not the
\* snapshot, and no handler goes on working for it.
C10_InvalidPublishRejected ==
    [][ (npub' = npub + 1 /\ lastInvalid')
        => ( /\ pubResp' = 400
             /\ pub' = pub
             /\ artifacts' = artifacts
             /\ ReleasesByVersion' = ReleasesByVersion
             /\ LatestByChannel' = LatestByChannel
             /\ storeFile' = storeFile ) ]_vars

\* C11: a check on a channel that has no entry in latestByChannel is answered
\* with the not-found status (404, not 400 or 500), and the step that answers
\* it changes neither map nor the snapshot.
C11_NoReleaseIsNotFound ==
    [][ \A c \in Callers :
          (resp'[c] # resp[c] /\ resp'[c].message = "no release in channel")
            => ( /\ resp'[c].status = 404
                 /\ ReleasesByVersion' = ReleasesByVersion
                 /\ LatestByChannel' = LatestByChannel
                 /\ storeFile' = storeFile ) ]_vars

\* the versions a map of releases has an entry for
StoreKeys(releases) == { v \in Keys : releases[v] # NoRelease }

\* the step in which the publish handler of slot s stores its release and
\* returns
Commits(s) == pub[s].pc = "copied" /\ pub'[s] = IdleSlot /\ srvBoots' = srvBoots

\* C12: a publish that fails while persisting the snapshot answers with the
\* persistence error (500) and keeps its in-memory mutation, so that a check
\* on that channel that follows it (same process, no other publish) reports
\* its version; and a publish that persists leaves the snapshot equal to the
\* in-memory store.
C12_FailedSaveKeepsMutation ==
    /\ [] ( \A c \in Callers :
              ( /\ Responded(c) /\ resp[c].settled /\ srvBoots = 0
                /\ resp[c].seen.version \notin {NoVersion, EmptyVersion}
                /\ ~resp[c].seen.ok )
                => /\ resp[c].status = 200
                   /\ resp[c].latest.Version = resp[c].seen.version )
    /\ [][ \A s \in Slots :
             (Commits(s) /\ pub[s].version # EmptyVersion)
               => IF lastPub'[pub[s].channel].ok
                  THEN /\ storeFile'.exists
                       /\ StoreKeys(storeFile'.releases) = StoreKeys(ReleasesByVersion')
                       /\ storeFile'.latest = LatestByChannel'
                  ELSE /\ pubResp' = 500
                       /\ ReleasesByVersion'[pub[s].version] # NoRelease
                       /\ LatestByChannel'[pub[s].channel] = pub[s].version ]_vars

\* C13: a download of a version that releasesByVersion holds is answered with
\* the bytes stored as that version's artifact, also after the server was
\* stopped and started again; a download of any other version is answered 404.
C13_DownloadServesArtifact ==
    [][ dl' # dl
        => IF ReleasesByVersion[dl'.version] # NoRelease
           THEN dl'.status = 200 /\ dl'.body = artifacts[dl'.version]
           ELSE dl'.status = 404 ]_vars

\* the step in which the agent's check request is answered
AgentAnswered ==
    \/ impl = "mux" /\ cycles' = cycles + 1
    \/ /\ chk["agent"].pc = "ready" /\ chk'["agent"].pc = "idle"
       /\ srvBoots' = srvBoots /\ agentBoots' = agentBoots

\* C14: a check with the channel and currentVersion of the check before it,
\* with no publish at work from the start of the first to the end of the
\* second, is answered as the first was: same status, updateAvailable, latest
\* release and message.
C14_RepeatedCheckSameOutput ==
    [][ ( /\ AgentAnswered
          /\ Responded("agent")
          /\ calm' /\ quiet'
          /\ resp'["agent"].current = resp["agent"].current
          /\ resp'["agent"].channel = resp["agent"].channel )
        => ( /\ resp'["agent"].status = resp["agent"].status
             /\ resp'["agent"].update = resp["agent"].update
             /\ resp'["agent"].latest = resp["agent"].latest
             /\ resp'["agent"].message = resp["agent"].message ) ]_vars

\* C15: current_version changes only in the record step that ends a cycle,
\* after the download was verified and renamed to algo_<version>, algo_current
\* was linked to it and the restart succeeded; its new value is the version
\* the cycle's check returned, and any other step leaves it as it was.
C15_RecordOnlyAfterSuccess ==
    [][ currentVer' # currentVer
        => ( /\ pc = "record" /\ pc' = "tick"
             /\ outcome' = "ok"
             /\ currentVer' = ck.Latest.Version
             /\ tmpFile[ck.Latest.Version] = NoFile
             /\ Sha256(installed[ck.Latest.Version]) = ck.Latest.Sha256
             /\ currLink = ck.Latest.Version
             /\ currentCmd # "nil" ) ]_vars

\* C16: while no publish is at work and the last publish persisted (200), the
\* snapshot holds the keys of releasesByVersion and the same latestByChannel
\* (for the first controller, which has no loader, up to a restart); and
\* releases.json only ever changes to the complete encoding of the store.
C16_SnapshotMatchesStore ==
    /\ [] ( ( /\ NoPublishing /\ pubResp = 200
              /\ (impl = "ctl1" => srvBoots = 0) )
            => /\ storeFile.exists
               /\ StoreKeys(storeFile.releases) = StoreKeys(ReleasesByVersion)
               /\ storeFile.latest = LatestByChannel )
    /\ [][ storeFile' # storeFile
           => storeFile' = Encode(ReleasesByVersion', LatestByChannel') ]_vars

\* C17: when a cycle has ended with the download error, no download_<version>
\* file is left in the install directory, also when the transfer stopped after
\* part of the body was written.
C17_FailedDownloadLeavesNoTemp ==
    (pc = "tick" /\ outcome = "download failed")
        => \A v \in Versions : tmpFile[v] = NoFile

\* C18: the supervisor never tracks a process that has already exited: when
\* the algorithm process exits on its own, currentCmd goes back to nil, as it
\* does on stopAlgorithm.
C18_NeverTracksExitedProcess == currentCmd # "exited"

FailedOutcomes ==
    {"check failed", "download failed", "sha256 mismatch", "rename failed",
     "chmod failed", "symlink failed", "restart failed", "record failed"}

\* C19: a failed cycle does not end the poll loop: once a step has failed the
\* agent is back at the ticker with nothing of the cycle left to run and the
\* next cycle can start; a cycle starts only while no other cycle is running,
\* and it starts at check with the content current_version has at that moment.
C19_FailedCycleKeepsPolling ==
    /\ [](outcome \in FailedOutcomes
            => /\ pc = "tick"
               /\ ck = NoCk
               /\ cycles < MaxCycles => ENABLED Tick)
    /\ [][cycles' # cycles
            => /\ pc = "tick"
               /\ cycles' = cycles + 1
               /\ IF impl = "mux"
                  THEN resp'["agent"] =
                           CheckResponse(ChannelMux(cfgChannel), currentVer, 404,
                                         NoPublishing)
                  ELSE /\ pc' = "checking"
                       /\ chk'["agent"].pc \in {"loaded", "ready"}
                       /\ chk'["agent"].channel = ChannelCtl(cfgChannel)
                       /\ chk'["agent"].current = currentVer]_vars

\* the second cycle has downloaded again after the first one failed behind the
\* rename: the file is installed, no link and no record were made
C19_SecondCycleAfterFailure ==
    /\ cycles = 2 /\ agentBoots = 0
    /\ pc = "verify"
    /\ currLink = NoVersion /\ currentVer = << >>
    /\ \E v \in Versions : installed[v] # NoFile

\* C20: while the server process that answered it is running, the version of
\* a publish that returned 200 is a key of ReleasesByVersion in memory and in
\* releases.json, whatever publishes and checks have run since.
C20_PublishedReleaseStays ==
    \A c \in Channels :
        (lastPub[c].ok /\ srvBoots = 0)
            => /\ lastPub[c].version \in StoreKeys(ReleasesByVersion)
               /\ storeFile.exists
               /\ lastPub[c].version \in StoreKeys(storeFile.releases)

\* C21: the latest release of a check answered with 200 carries the channel
\* the check asked for, also after a version was published again on another
\* channel.
C21_LatestIsOfCheckedChannel ==
    \A c \in Callers :
        resp[c].status = 200 => resp[c].latest.Channel = resp[c].channel

\* payload processes started by the agent that are alive
Alive == strays + (IF currentCmd = "running" THEN 1 ELSE 0)

\* C22: within one run of the agent at most one payload process it started is
\* alive: restartAlgorithm does not start the new process next to the one it
\* asked to stop.
C22_AtMostOnePayloadAlive == agentBoots = 0 => Alive <= 1

====
